---- MODULE Spec2Model ----
(***************************************************************************)
(* The product CRUD service of app.py: a Flask application whose handlers  *)
(* validate a JSON body, change Product rows through one SQLAlchemy        *)
(* session, commit, and translate exceptions into HTTP statuses.           *)
(*                                                                         *)
(* One step of the model is one whole request: the handler runs from its   *)
(* first statement to its return, the request and the response it produced *)
(* are left in req and resp until Reply hands the response to the client.  *)
(*                                                                         *)
(* Numbers: a JSON number or a Python float q is held as the integer       *)
(* q * Den, so that with Den = 2 the model has halves (0.5, 1.5): enough   *)
(* to tell float() from int(), which truncates toward zero.                *)
(***************************************************************************)
EXTENDS Integers, Sequences, FiniteSets, TLC

\* ------------------------------------------------------------------ bounds

\* Identities the primary-key sequence hands out before the model stops creating.
MaxId == 2

\* Largest reading of the clock (datetime.utcnow) the model distinguishes.
MaxTime == 1

\* A number q is represented as q * Den.
Den == 2

\* ------------------------------------------------------------ JSON values

JNum(n) == [kind |-> "num", num |-> n, text |-> ""]

JText(s) == [kind |-> "text", num |-> 0, text |-> s]

JNull == [kind |-> "null", num |-> 0, text |-> ""]

\* ---------------------------------------------------------- Python floats

Float(n) == [nan |-> FALSE, num |-> n]

NaN == [nan |-> TRUE, num |-> 0]

\* x <= 0 on floats: every comparison with NaN is False.
FloatLeZero(x) == ~x.nan /\ x.num <= 0

\* -------------------------------------------------------------- conversions

Raised(e) == [exc |-> e, val |-> 0]

Returned(v) == [exc |-> "none", val |-> v]

\* float(text): the texts of the model that Python parses as a float.
float_text(s) ==
  IF s = "nan" THEN [exc |-> "none", val |-> NaN]
  ELSE IF s = "1" THEN [exc |-> "none", val |-> Float(Den)]
  ELSE [exc |-> "ValueError", val |-> NaN]

\* float(v) for a JSON value v.
to_float(v) ==
  CASE v.kind = "num" -> [exc |-> "none", val |-> Float(v.num)]
    [] v.kind = "text" -> float_text(v.text)
    [] OTHER -> [exc |-> "TypeError", val |-> NaN]

\* Truncation toward zero of the number n / Den.
trunc(n) == IF n >= 0 THEN n \div Den ELSE -((-n) \div Den)

\* int(text): the texts of the model that Python parses as an integer.
int_text(s) == IF s = "1" THEN Returned(1) ELSE Raised("ValueError")

\* int(v) for a JSON value v.
to_int(v) ==
  CASE v.kind = "num" -> Returned(trunc(v.num))
    [] v.kind = "text" -> int_text(v.text)
    [] OTHER -> Raised("TypeError")

\* -------------------------------------------------------------------- state

VARIABLES
  store,     \* the committed Product rows: identity -> row
  session,   \* db.session: the unit of work not yet committed
  next_id,   \* the next value of the primary-key sequence
  now,       \* the clock read by datetime.utcnow
  deleted,   \* history: the identities whose DELETE returned 204
  req,       \* the request handled last and the store failure that met it, NoReq
             \* once answered
  resp       \* the response to req, NoResp once answered

vars == <<store, session, next_id, now, deleted, req, resp>>

Fields == {"name", "description", "price", "stock"}

Ids == 1 .. MaxId

\* A request body: a JSON object holding some of the fields.
NoData == [f \in {} |-> JNull]

NoReq == [op |-> "none", id |-> 0, data |-> NoData, fault |-> "none"]

NoResp == [status |-> 0, exc |-> "none", body |-> <<>>]

EmptySession == [new |-> <<>>, dirty |-> [i \in {} |-> 0], deleted |-> {}]

\* ---------------------------------------------------------------- the model

\* Product.to_dict. Of the two timestamps the model keeps created_at; updated_at,
\* which the store refreshes on every UPDATE and no handler reads, is left out.
to_dict(id, p) ==
  [id |-> id, name |-> p.name, description |-> p.description, price |-> p.price,
   stock |-> p.stock, created_at |-> p.created_at]

\* data.get(field), None when the field is absent
data_get(data, field) == IF field \in DOMAIN data THEN data[field] ELSE JNull

\* A creation that never reads the stock supplied.
stock_ignored(data) == JNum(0)

\* data.get('stock', 0)
stock_or_default(data) == IF "stock" \in DOMAIN data THEN data["stock"] ELSE JNum(0)

\* A validation that lets the price 0 through.
price_rejected_below_zero(x) == ~x.nan /\ x.num < 0

\* float(data['price']) <= 0
price_rejected(x) == FloatLeZero(x)

\* int(data['stock']) < 0
stock_rejected(n) == n < 0

\* The validation of create_product, in the order of the code: the exception the
\* first failing statement raises, "none" when the Product is constructed.
validate_create(data) ==
  IF "name" \notin DOMAIN data \/ "price" \notin DOMAIN data THEN "ValueError"
  ELSE IF to_float(data["price"]).exc # "none" THEN to_float(data["price"]).exc
  ELSE IF price_rejected(to_float(data["price"]).val) THEN "ValueError"
  ELSE IF "stock" \in DOMAIN data /\ to_int(data["stock"]).exc # "none"
    THEN to_int(data["stock"]).exc
  ELSE IF "stock" \in DOMAIN data /\ stock_rejected(to_int(data["stock"]).val)
    THEN "ValueError"
  ELSE "none"

\* Product(name=..., description=..., price=..., stock=...) of a validated body;
\* the column default fills created_at when the row is inserted.
new_product(data) ==
  [name |-> data["name"],
   description |-> data_get(data, "description"),
   price |-> to_float(data["price"]).val,
   stock |-> to_int(stock_or_default(data)).val,
   created_at |-> now]

\* The validation of update_product, in the order of the code.
validate_update(data) ==
  IF "price" \in DOMAIN data /\ to_float(data["price"]).exc # "none"
    THEN to_float(data["price"]).exc
  ELSE IF "price" \in DOMAIN data /\ price_rejected(to_float(data["price"]).val)
    THEN "ValueError"
  ELSE IF "stock" \in DOMAIN data /\ to_int(data["stock"]).exc # "none"
    THEN to_int(data["stock"]).exc
  ELSE IF "stock" \in DOMAIN data /\ stock_rejected(to_int(data["stock"]).val)
    THEN "ValueError"
  ELSE "none"

\* An update that gives an absent stock the default of a creation.
apply_patch_defaulting(p, data) ==
  [name |-> IF "name" \in DOMAIN data THEN data["name"] ELSE p.name,
   description |->
     IF "description" \in DOMAIN data THEN data["description"] ELSE p.description,
   price |-> IF "price" \in DOMAIN data THEN to_float(data["price"]).val ELSE p.price,
   stock |-> IF "stock" \in DOMAIN data THEN to_int(data["stock"]).val ELSE 0,
   created_at |-> p.created_at]

\* The four conditional assignments of update_product to a validated body.
apply_patch(p, data) ==
  [name |-> IF "name" \in DOMAIN data THEN data["name"] ELSE p.name,
   description |->
     IF "description" \in DOMAIN data THEN data["description"] ELSE p.description,
   price |-> IF "price" \in DOMAIN data THEN to_float(data["price"]).val ELSE p.price,
   stock |-> IF "stock" \in DOMAIN data THEN to_int(data["stock"]).val ELSE p.stock,
   created_at |-> p.created_at]

\* ---------------------------------------------------------------- session

\* Product.query.get_or_404(id)
get_or_404(id, fault) ==
  IF fault = "query" THEN "StoreError"
  ELSE IF id \notin DOMAIN store THEN "NotFound"
  ELSE "none"

\* db.session.add(product)
session_add(s, p) == [s EXCEPT !.new = Append(@, p)]

\* An attribute assignment to a loaded product marks it dirty.
session_modify(s, id, p) ==
  [s EXCEPT !.dirty = [i \in DOMAIN @ \cup {id} |-> IF i = id THEN p ELSE @[i]]]

\* db.session.delete(product)
session_delete(s, id) == [s EXCEPT !.deleted = @ \cup {id}]

\* A handler that returns without rolling back.
rollback_forgotten(s) == s

\* db.session.rollback(): the pending changes are discarded.
rollback(s) == EmptySession

\* nullable=False on name (description is nullable).
violates_not_null(p) == p.name.kind = "null"

\* A store that numbers a new row after the largest identity in the table.
identity_after_largest(rows, first, k) ==
  k + (IF DOMAIN rows = {} THEN 0
       ELSE CHOOSE m \in DOMAIN rows : \A i \in DOMAIN rows : i <= m)

\* The identity the primary-key sequence gives the k-th row inserted by a flush.
new_identity(rows, first, k) == first + k - 1

\* The rows a flush of s writes over the committed rows.
flushed(rows, s, first) ==
  LET kept == DOMAIN rows \ s.deleted
      fresh == {new_identity(rows, first, k) : k \in 1 .. Len(s.new)}
      slot(i) == CHOOSE k \in 1 .. Len(s.new) : new_identity(rows, first, k) = i
  IN [i \in kept \cup fresh |->
        IF i \in fresh THEN s.new[slot(i)]
        ELSE IF i \in DOMAIN s.dirty THEN s.dirty[i]
        ELSE rows[i]]

\* db.session.commit(): all of the unit of work, or an exception and none of it.
commit(s, fault) ==
  IF fault = "commit"
       \/ (\E k \in 1 .. Len(s.new) : violates_not_null(s.new[k]))
       \/ (\E i \in DOMAIN s.dirty : violates_not_null(s.dirty[i]))
    THEN [exc |-> "StoreError", store |-> store, next_id |-> next_id]
    ELSE [exc |-> "none", store |-> flushed(store, s, next_id),
          next_id |-> next_id + Len(s.new)]

\* --------------------------------------------------------------- responses

Answer(status, exc, body) == [status |-> status, exc |-> exc, body |-> body]

\* Product.query.all() serialised: every row, by ascending identity.
all_products ==
  LET n == Cardinality(DOMAIN store)
      order == CHOOSE f \in [1 .. n -> DOMAIN store] :
                 \A i, j \in 1 .. n : i < j => f[i] < f[j]
  IN [k \in 1 .. n |-> to_dict(order[k], store[order[k]])]

\* The response of get_products.
get_products_response(fault) ==
  IF fault = "query" THEN Answer(500, "StoreError", <<>>)
  ELSE Answer(200, "none", all_products)

\* The response of get_product: every exception, of any kind, answers 404.
get_product_response(id, fault) ==
  IF get_or_404(id, fault) = "none"
    THEN Answer(200, "none", <<to_dict(id, store[id])>>)
    ELSE Answer(404, get_or_404(id, fault), <<>>)

\* except ValueError -> 400, except Exception -> 500
status_of(exc) == IF exc = "ValueError" THEN 400 ELSE 500

\* ----------------------------------------------------------------- handlers

Idle == req = NoReq

\* GET /api/products
get_products(fault) ==
  /\ Idle
  /\ req' = [op |-> "list", id |-> 0, data |-> NoData, fault |-> fault]
  /\ resp' = get_products_response(fault)
  /\ UNCHANGED <<store, session, next_id, now, deleted>>

\* GET /api/products/<id>
get_product(id, fault) ==
  /\ Idle
  /\ req' = [op |-> "get", id |-> id, data |-> NoData, fault |-> fault]
  /\ resp' = get_product_response(id, fault)
  /\ UNCHANGED <<store, session, next_id, now, deleted>>

\* POST /api/products
create_product(data, fault) ==
  /\ Idle
  /\ next_id <= MaxId \/ validate_create(data) # "none" \/ fault = "commit"
  /\ req' = [op |-> "create", id |-> 0, data |-> data, fault |-> fault]
  /\ UNCHANGED <<now, deleted>>
  /\ LET v == validate_create(data)
         s1 == session_add(session, new_product(data))
         c == commit(s1, fault)
         id == new_identity(store, next_id, Len(s1.new))
     IN IF v # "none"
          THEN /\ session' = rollback(session)
               /\ resp' = Answer(status_of(v), v, <<>>)
               /\ UNCHANGED <<store, next_id>>
          ELSE IF c.exc # "none"
            THEN /\ session' = rollback(s1)
                 /\ resp' = Answer(status_of(c.exc), c.exc, <<>>)
                 /\ UNCHANGED <<store, next_id>>
            ELSE /\ store' = c.store
                 /\ next_id' = c.next_id
                 /\ session' = EmptySession
                 /\ resp' = Answer(201, "none", <<to_dict(id, c.store[id])>>)

\* PUT /api/products/<id>
update_product(id, data, fault) ==
  /\ Idle
  /\ req' = [op |-> "update", id |-> id, data |-> data, fault |-> fault]
  /\ UNCHANGED <<next_id, now, deleted>>
  /\ LET e == get_or_404(id, fault)
         v == validate_update(data)
         s1 == session_modify(session, id, apply_patch(store[id], data))
         c == commit(s1, fault)
     IN IF e # "none"
          THEN /\ session' = rollback(session)
               /\ resp' = Answer(status_of(e), e, <<>>)
               /\ UNCHANGED store
          ELSE IF v # "none"
            THEN /\ session' = rollback(session)
                 /\ resp' = Answer(status_of(v), v, <<>>)
                 /\ UNCHANGED store
            ELSE IF c.exc # "none"
              THEN /\ session' = rollback(s1)
                   /\ resp' = Answer(status_of(c.exc), c.exc, <<>>)
                   /\ UNCHANGED store
              ELSE /\ store' = c.store
                   /\ session' = EmptySession
                   /\ resp' = Answer(200, "none", <<to_dict(id, c.store[id])>>)

\* DELETE /api/products/<id>
delete_product(id, fault) ==
  /\ Idle
  /\ req' = [op |-> "delete", id |-> id, data |-> NoData, fault |-> fault]
  /\ UNCHANGED <<next_id, now>>
  /\ LET e == get_or_404(id, fault)
         s1 == session_delete(session, id)
         c == commit(s1, fault)
     IN IF e # "none"
          THEN /\ session' = rollback(session)
               /\ resp' = Answer(status_of(e), e, <<>>)
               /\ UNCHANGED <<store, deleted>>
          ELSE IF c.exc # "none"
            THEN /\ session' = rollback(s1)
                 /\ resp' = Answer(status_of(c.exc), c.exc, <<>>)
                 /\ UNCHANGED <<store, deleted>>
            ELSE /\ store' = c.store
                 /\ session' = EmptySession
                 /\ deleted' = deleted \cup {id}
                 /\ resp' = Answer(204, "none", <<>>)

\* The response leaves the server; the worker takes the next request.
Reply ==
  /\ ~Idle
  /\ req' = NoReq
  /\ resp' = NoResp
  /\ UNCHANGED <<store, session, next_id, now, deleted>>

\* Time passes between two requests.
Tick ==
  /\ Idle
  /\ now < MaxTime
  /\ now' = now + 1
  /\ UNCHANGED <<store, session, next_id, deleted, req, resp>>

\* ------------------------------------------------------------------ inputs

\* A field left out of the body.
Absent == [kind |-> "absent", num |-> 0, text |-> ""]

\* The JSON object with the fields of full that are not Absent.
Body(full) == [f \in {g \in Fields : full[g] # Absent} |-> full[f]]

\* Well-typed bodies: a text name, a text description, a number for the price
\* (0, 0.5 which is the smallest positive number of the model, 1) and an integer
\* for the stock (-1, 1); every field may be absent.
Bodies ==
  {Body(full) :
     full \in [name : {Absent, JText("a"), JText("b")},
               description : {Absent, JText("d")},
               price : {Absent, JNum(0), JNum(1), JNum(Den)},
               stock : {Absent, JNum(-Den), JNum(Den)}]}

\* What float() is given by an arbitrary client: also a negative number, texts
\* ("nan" is a float, "x" is not) and null.
RawPrices == {Absent, JNum(-1), JNum(0), JNum(1), JText("nan"), JText("x"), JNull}

\* What int() is given: -1, -0.5, 0, 1.5, texts ("1" is an integer, "x" is not)
\* and null.
RawStocks ==
  {Absent, JNum(-Den), JNum(-1), JNum(0), JNum(Den + 1), JText("1"), JText("x"), JNull}

\* Every JSON object over the four fields with such values.
RawBodies ==
  {Body(full) :
     full \in [name : {Absent, JText(""), JText("a"), JNull},
               description : {Absent, JText("d")},
               price : RawPrices,
               stock : RawStocks]}

QueryFaults == {"none", "query"}

CommitFaults == {"none", "commit"}

Faults == {"none", "query", "commit"}

\* ------------------------------------------------------------ specification

Init ==
  /\ store = [i \in {} |-> 0]
  /\ session = EmptySession
  /\ next_id = 1
  /\ now = 0
  /\ deleted = {}
  /\ req = NoReq
  /\ resp = NoResp

Next ==
  \/ \E fault \in QueryFaults : get_products(fault)
  \/ \E id \in Ids, fault \in QueryFaults : get_product(id, fault)
  \/ \E data \in Bodies, fault \in CommitFaults : create_product(data, fault)
  \/ \E id \in Ids, data \in Bodies, fault \in Faults : update_product(id, data, fault)
  \/ \E id \in Ids, fault \in Faults : delete_product(id, fault)
  \/ Reply
  \/ Tick

Spec == Init /\ [][Next]_vars

\* The service with one identity left in the sequence (the earlier products were
\* created and deleted), serving clients that send arbitrary values, within one
\* reading of the clock.
InitRaw ==
  /\ store = [i \in {} |-> 0]
  /\ session = EmptySession
  /\ next_id = MaxId
  /\ now = 0
  /\ deleted = 1 .. MaxId - 1
  /\ req = NoReq
  /\ resp = NoResp

NextRaw ==
  \/ \E fault \in QueryFaults : get_products(fault)
  \/ \E id \in Ids, fault \in QueryFaults : get_product(id, fault)
  \/ \E data \in RawBodies, fault \in CommitFaults : create_product(data, fault)
  \/ \E id \in Ids, data \in RawBodies, fault \in Faults : update_product(id, data, fault)
  \/ \E id \in Ids, fault \in Faults : delete_product(id, fault)
  \/ Reply

SpecRaw == InitRaw /\ [][NextRaw]_vars

\* ------------------------------------------------------------------ claims

\* A step in which the handler of op runs: req' is its request, resp' its response,
\* the unprimed variables are the state it found.
Handles(op) == Idle /\ req'.op = op

Mutating == {"create", "update", "delete"}

\* x > 0 on floats: no comparison with NaN holds.
FloatGtZero(x) == ~x.nan /\ x.num > 0

\* C1: every product row in the store has price > 0 and stock >= 0, after any
\* sequence of create, update and delete requests.
PricePositiveStockNonNegative ==
  \A id \in DOMAIN store :
    FloatGtZero(store[id].price) /\ store[id].stock >= 0

\* C2: an update whose id is not in the store is answered 404, for every body, and
\* leaves the store unchanged.
UpdateAbsentIsNotFound ==
  [][(Handles("update") /\ req'.id \notin DOMAIN store)
       => (resp'.status = 404 /\ store' = store)]_vars

\* C3: a delete whose id is not in the store is answered 404 and removes no row; a
\* delete whose id is in the store removes that row and is answered 204 (unless the
\* store fails).
DeleteAbsentIsNotFound ==
  [][Handles("delete")
       => IF req'.id \notin DOMAIN store
            THEN resp'.status = 404 /\ store' = store
            ELSE resp'.exc # "StoreError"
                   => /\ resp'.status = 204
                      /\ DOMAIN store' = DOMAIN store \ {req'.id}
                      /\ \A j \in DOMAIN store' : store'[j] = store[j]]_vars

\* C4: once a DELETE of an id has returned 204, that id is in the store in no later
\* state and every later GET of it is answered 404, whatever requests come between.
DeletedStaysNotFound ==
  /\ deleted \cap DOMAIN store = {}
  /\ (req.op = "get" /\ req.id \in deleted) => resp.status = 404

\* C4 witness: a GET of a deleted id, answered while a product created after the
\* deletion is in the store.
DeletedGetAmongOthers ==
  /\ req.op = "get"
  /\ req.id \in deleted
  /\ resp.status = 404
  /\ \E j \in DOMAIN store : j > req.id

\* C5: a successful update changes, of name, description, price and stock, only
\* the fields present in the body; the row keeps its id and created_at, and every
\* other row is unchanged.
UpdateChangesOnlyPatched ==
  [][(Handles("update") /\ resp'.status = 200)
       => /\ req'.id \in DOMAIN store
          /\ DOMAIN store' = DOMAIN store
          /\ resp'.body[1].id = req'.id
          /\ "name" \notin DOMAIN req'.data
               => store'[req'.id].name = store[req'.id].name
          /\ "description" \notin DOMAIN req'.data
               => store'[req'.id].description = store[req'.id].description
          /\ "price" \notin DOMAIN req'.data
               => store'[req'.id].price = store[req'.id].price
          /\ "stock" \notin DOMAIN req'.data
               => store'[req'.id].stock = store[req'.id].stock
          /\ store'[req'.id].created_at = store[req'.id].created_at
          /\ \A j \in DOMAIN store \ {req'.id} : store'[j] = store[j]]_vars

\* C5 witness: an update of the price alone, later than the creation of its row,
\* which has a stock other than the default and stands beside another row.
PartialUpdateDone ==
  /\ req.op = "update"
  /\ resp.status = 200
  /\ DOMAIN req.data = {"price"}
  /\ Cardinality(DOMAIN store) = 2
  /\ store[req.id].stock # 0
  /\ store[req.id].created_at < now

\* C6: a create, update or delete that fails (validation, absent id, store failure)
\* leaves the rows of the store as they were, and nothing of it pending in the
\* session for a later request to commit.
FailureLeavesStore ==
  [][(Idle /\ req'.op \in Mutating /\ resp'.status \notin {200, 201, 204})
       => (store' = store /\ session' = EmptySession)]_vars

\* C6 witness: the commit of an update failed after the patch had changed the
\* price of the loaded product.
CommitFailureRolledBack ==
  /\ req.op = "update"
  /\ req.fault = "commit"
  /\ resp.exc = "StoreError"
  /\ req.id \in DOMAIN store
  /\ "price" \in DOMAIN req.data
  /\ store[req.id].price # to_float(req.data["price"]).val

\* A body a creation accepts: a text name, a number > 0 for the price, an integer
\* >= 0 for the stock or none, a text description or none.
ValidFields(data) ==
  /\ "name" \in DOMAIN data /\ data["name"].kind = "text"
  /\ "price" \in DOMAIN data /\ data["price"].kind = "num" /\ data["price"].num > 0
  /\ "stock" \in DOMAIN data
       => /\ data["stock"].kind = "num"
          /\ data["stock"].num % Den = 0
          /\ data["stock"].num >= 0
  /\ "description" \in DOMAIN data => data["description"].kind = "text"

\* C7: a create with valid fields, the store working, is answered 201 with an id
\* of the store, and a GET of that id in the state it leaves is answered 200 with
\* the name, description and price supplied and the stock supplied, 0 if omitted.
CreateThenGet ==
  (req.op = "create" /\ ValidFields(req.data) /\ req.fault = "none")
    => /\ resp.status = 201
       /\ Len(resp.body) = 1
       /\ resp.body[1].id \in DOMAIN store
       /\ resp.body[1].id \notin deleted
       /\ LET got == get_product_response(resp.body[1].id, "none")
          IN /\ got.status = 200
             /\ got.body[1].name = req.data["name"]
             /\ got.body[1].description =
                  (IF "description" \in DOMAIN req.data
                     THEN req.data["description"] ELSE JNull)
             /\ got.body[1].price = Float(req.data["price"].num)
             /\ IF "stock" \in DOMAIN req.data
                  THEN got.body[1].stock * Den = req.data["stock"].num
                  ELSE got.body[1].stock = 0

\* C7 witness: a second product created with a stock of 1 and a description.
CreatedWithStock ==
  /\ req.op = "create"
  /\ resp.status = 201
  /\ resp.body[1].id = 2
  /\ "stock" \in DOMAIN req.data
  /\ "description" \in DOMAIN req.data
  /\ resp.body[1].stock = 1
  /\ Cardinality(DOMAIN store) = 2

\* A body whose fields, where present, have the type of their column: a text name
\* and description, a number for the price, an integer for the stock.
WellTyped(data) ==
  /\ "name" \in DOMAIN data => data["name"].kind = "text"
  /\ "description" \in DOMAIN data => data["description"].kind = "text"
  /\ "price" \in DOMAIN data => data["price"].kind = "num"
  /\ "stock" \in DOMAIN data
       => data["stock"].kind = "num" /\ data["stock"].num % Den = 0

\* The conditions of rejection of the claim.
Rejectable(data) ==
  \/ "name" \notin DOMAIN data
  \/ "price" \notin DOMAIN data
  \/ data["price"].num <= 0
  \/ "stock" \in DOMAIN data /\ data["stock"].num < 0

NameNonEmpty ==
  \A id \in DOMAIN store :
    store[id].name.kind = "text" /\ store[id].name.text # ""

\* C10: a store failure during any request is answered 500, never 404 or 400, and
\* 404 is answered only when the id of the request is not in the store.
StoreFailureIs500 ==
  [][(Idle /\ req'.op # "none")
       => /\ resp'.exc = "StoreError" => resp'.status = 500
          /\ resp'.status = 404 => req'.id \notin DOMAIN store]_vars

====
